---- MODULE Spec2Model ----
(***************************************************************************)
(* Model of the chat service of hr-assistant-pro (src/lib/chatService.ts):  *)
(* the cached OpenAI client, generateResponse with its error mapping,       *)
(* classifyIntent, searchResume and the context summary.                    *)
(*                                                                          *)
(* A text is a sequence of atoms (characters or unbreakable chunks of       *)
(* text); the strings generateResponse returns are TLA+ strings.            *)
(***************************************************************************)
EXTENDS Integers, Sequences, FiniteSets, TLC

VARIABLES
  openai,        \* the module-level cached client: "null" or "client"
  built,         \* how many times new OpenAI(...) has run
  apiKey,        \* process.env.OPENAI_API_KEY is set
  usingAzure,    \* isUsingAzure()
  pc,            \* per invocation of generateResponse: "idle" or "awaiting"
  calls,         \* per invocation: calls issued to chat.completions.create
  ret,           \* how the invocation that just finished ended, until its caller takes it
  query,         \* classifyIntent's argument
  intentResult,  \* classifyIntent's result
  resumeText,    \* searchResume's first argument
  searchQuery,   \* searchResume's second argument
  evidence,      \* searchResume's result
  context,       \* the ChatContext given to generateResponse
  contextInfo    \* the context summary generateResponse builds from it

vars == <<openai, built, apiKey, usingAzure, pc, calls, ret, query, intentResult,
          resumeText, searchQuery, evidence, context, contextInfo>>

genVars == <<openai, built, apiKey, usingAzure, pc, calls, ret>>
classifyVars == <<query, intentResult>>
searchVars == <<resumeText, searchQuery, evidence>>
contextVars == <<context, contextInfo>>

----------------------------------------------------------------------------
(* Bounds *)

NumInvocations == 2
MaxMsgLen == 2

Invocations == 1..NumInvocations

RECURSIVE SeqsUpTo(_, _)
SeqsUpTo(S, n) ==
  IF n = 0 THEN {<<>>}
  ELSE LET shorter == SeqsUpTo(S, n - 1)
       IN  shorter \cup {Append(s, a) : s \in {t \in shorter : Len(t) = n - 1}, a \in S}

----------------------------------------------------------------------------
(* generateResponse: the cached client, the call, the error mapping *)

\* Chunks of text an error message of the collaborator is made of.
MsgAtoms ==
  {"401", "Incorrect API key", "429", "insufficient_quota",
   "exceeded your current quota", "model", "Model", "timeout"}

Messages == SeqsUpTo(MsgAtoms, MaxMsgLen)

NoKeyMessage == <<"OPENAI_API_KEY environment variable is not set">>

\* String.prototype.includes for a needle that is one atom.
Includes(m, needle) == \E i \in 1..Len(m) : m[i] = needle

ApologyMsg == "I apologize, but I cannot provide a response at this time."
AuthMsg == "Authentication failed. Please check that the OpenAI API key is correctly configured."
RateLimitMsg == "Rate limit exceeded. Please wait a moment and try again."
QuotaMsg == "OpenAI API quota exceeded. Please check your OpenAI account."
ModelMsg == "Model access error. The API key may not have access to gpt-4o-mini."
GenericMsg == "I apologize, but I encountered an error while processing your request. Please check the server logs for more details."

\* A thrown value: an Error instance with a message, or any other value.
ErrorValue(m) == [isError |-> TRUE, message |-> m]
NonErrorValue(m) == [isError |-> FALSE, message |-> m]
Thrown == {ErrorValue(m) : m \in Messages} \cup {NonErrorValue(m) : m \in Messages}

Returned(s) == [how |-> "returned", value |-> s]

CatchRateLimitFirst(error) ==
  Returned(
    IF error.isError /\ Includes(error.message, "429") THEN RateLimitMsg
    ELSE IF error.isError /\ (Includes(error.message, "401")
                               \/ Includes(error.message, "Incorrect API key")) THEN AuthMsg
    ELSE IF error.isError /\ (Includes(error.message, "insufficient_quota")
                               \/ Includes(error.message, "exceeded your current quota")) THEN QuotaMsg
    ELSE IF error.isError /\ Includes(error.message, "model") THEN ModelMsg
    ELSE GenericMsg)

\* The catch block of generateResponse.
Catch(error) ==
  Returned(
    IF error.isError /\ (Includes(error.message, "401")
                          \/ Includes(error.message, "Incorrect API key")) THEN AuthMsg
    ELSE IF error.isError /\ Includes(error.message, "429") THEN RateLimitMsg
    ELSE IF error.isError /\ (Includes(error.message, "insufficient_quota")
                               \/ Includes(error.message, "exceeded your current quota")) THEN QuotaMsg
    ELSE IF error.isError /\ Includes(error.message, "model") THEN ModelMsg
    ELSE GenericMsg)

\* What the awaited chat.completions.create settles to.
Responses ==
  {[kind |-> "content", content |-> c, error |-> ErrorValue(<<>>)] : c \in {"answer", " "}}
  \cup {[kind |-> k, content |-> "", error |-> ErrorValue(<<>>)] :
          k \in {"emptyContent", "nullContent", "noChoice"}}
  \cup {[kind |-> "rejected", content |-> "", error |-> e] : e \in Thrown}

OnResponseNoFallback(resp) ==
  IF resp.kind = "rejected" THEN Catch(resp.error) ELSE Returned(resp.content)

\* generateResponse after the await: completion.choices[0]?.message?.content || apology,
\* or the catch block when the call rejected.
OnResponse(resp) ==
  IF resp.kind = "rejected" THEN Catch(resp.error)
  ELSE IF resp.kind = "content" /\ resp.content # "" THEN Returned(resp.content)
  ELSE Returned(ApologyMsg)

\* getAzureOpenAIClient(): returns a client or throws.
AzureClientOutcomes ==
  {[ok |-> TRUE, error |-> ErrorValue(<<>>)]}
  \cup {[ok |-> FALSE, error |-> ErrorValue(m)] : m \in SeqsUpTo(MsgAtoms, 1)}

\* getOpenAIClient without its test of the cache: a new client on every call.
getOpenAIClientNoGuard(cache, key, azure, azureOutcome) ==
  IF azure THEN [ok |-> azureOutcome.ok, error |-> azureOutcome.error, openai |-> cache,
                 constructed |-> FALSE]
  ELSE IF ~key
    THEN [ok |-> FALSE, error |-> ErrorValue(NoKeyMessage), openai |-> cache,
          constructed |-> FALSE]
    ELSE [ok |-> TRUE, error |-> ErrorValue(<<>>), openai |-> "client",
          constructed |-> TRUE]

\* getOpenAIClient(): the client or the error thrown, the cache afterwards, and
\* whether new OpenAI(...) ran.
getOpenAIClient(cache, key, azure, azureOutcome) ==
  IF azure THEN [ok |-> azureOutcome.ok, error |-> azureOutcome.error, openai |-> cache,
                 constructed |-> FALSE]
  ELSE IF cache = "null"
    THEN IF ~key
           THEN [ok |-> FALSE, error |-> ErrorValue(NoKeyMessage), openai |-> cache,
                 constructed |-> FALSE]
           ELSE [ok |-> TRUE, error |-> ErrorValue(<<>>), openai |-> "client",
                 constructed |-> TRUE]
    ELSE [ok |-> TRUE, error |-> ErrorValue(<<>>), openai |-> cache,
          constructed |-> FALSE]

NoRet == [how |-> "none", value |-> "", calls |-> 0, stage |-> "none",
          error |-> ErrorValue(<<>>), kind |-> "none"]

Finish(r, n, stage, error, kind) ==
  [how |-> r.how, value |-> r.value, calls |-> n, stage |-> stage,
   error |-> error, kind |-> kind]

\* Calls issued when the awaited call settles: none is added.
CallsAfterRetry(n, resp) == IF resp.kind = "rejected" THEN n + 1 ELSE n

CallsAfter(n, resp) == n

\* generateResponse up to its await: the client, then the one call.
Invoke(p) ==
  /\ pc[p] = "idle"
  /\ ret = NoRet
  /\ \E az \in AzureClientOutcomes :
       LET r == getOpenAIClient(openai, apiKey, usingAzure, az) IN
         /\ openai' = r.openai
         /\ built' = IF r.constructed THEN built + 1 ELSE built
         /\ IF r.ok
              THEN /\ pc' = [pc EXCEPT ![p] = "awaiting"]
                   /\ calls' = [calls EXCEPT ![p] = 1]
                   /\ ret' = NoRet
              ELSE /\ pc' = pc
                   /\ calls' = [calls EXCEPT ![p] = 0]
                   /\ ret' = Finish(Catch(r.error), 0, "client", r.error, "rejected")
  /\ UNCHANGED <<apiKey, usingAzure, classifyVars, searchVars, contextVars>>

\* The awaited call settles and generateResponse runs to its return.
Complete(p) ==
  /\ pc[p] = "awaiting"
  /\ ret = NoRet
  /\ \E resp \in Responses :
       ret' = Finish(OnResponse(resp), CallsAfter(calls[p], resp), "call",
                     resp.error, resp.kind)
  /\ pc' = [pc EXCEPT ![p] = "idle"]
  /\ calls' = [calls EXCEPT ![p] = 0]
  /\ UNCHANGED <<openai, built, apiKey, usingAzure, classifyVars, searchVars, contextVars>>

\* The caller's await takes the string the finished invocation resolved to;
\* this continuation runs before the event loop handles anything else.
Deliver ==
  /\ ret # NoRet
  /\ ret' = NoRet
  /\ UNCHANGED <<openai, built, apiKey, usingAzure, pc, calls, classifyVars, searchVars,
                 contextVars>>

----------------------------------------------------------------------------
(* classifyIntent *)

MaxQueryLen == 3
MaxXLen == 2

\* The line terminator: the one character "." of a regular expression does not match.
NL == "\n"

\* The words queries are drawn from; consecutive words are one space apart.
Vocabulary ==
  {"why", "WHY", "was", "qualified", "what", "experience", "years", "wrong",
   "versus", "show", "long", "ability", "justified", "x", NL}

\* The i flag of the patterns: words are compared in lower case.
Lower(w) == IF w = "WHY" THEN "why" ELSE w

\* Pattern words that lie inside a longer vocabulary word, at its end or at its start.
ProperSuffix == {<<"show", "how">>}
ProperPrefix == {}

Whole(tok, w) == Lower(tok) = w
Ends(tok, w) == Whole(tok, w) \/ <<Lower(tok), w>> \in ProperSuffix
Starts(tok, w) == Whole(tok, w) \/ <<Lower(tok), w>> \in ProperPrefix
Inside(tok, w) == Ends(tok, w) \/ Starts(tok, w)

\* A literal phrase of the pattern occurs in q from word i on.
PartAt(q, part, i) ==
  LET k == Len(part) IN
    /\ i + k - 1 <= Len(q)
    /\ IF k = 1 THEN Inside(q[i], part[1])
       ELSE /\ Ends(q[i], part[1])
            /\ Starts(q[i + k - 1], part[k])
            /\ \A j \in 2..(k - 1) : Whole(q[i + j - 1], part[j])

\* The phrases n.. of an alternative occur in order from word `from` on, each
\* reached over ".*": any characters but a line terminator.
RECURSIVE AltFrom(_, _, _, _)
AltFrom(q, alt, n, from) ==
  IF n > Len(alt) THEN TRUE
  ELSE \E i \in from..Len(q) :
         /\ \A j \in from..(i - 1) : q[j] # NL
         /\ PartAt(q, alt[n], i)
         /\ AltFrom(q, alt, n + 1, i + Len(alt[n]))

AltMatch(q, alt) ==
  \E i \in 1..Len(q) : PartAt(q, alt[1], i) /\ AltFrom(q, alt, 2, i + Len(alt[1]))

\* RegExp.prototype.test of one rule: a disjunction of alternatives.
Test(rule, q) == \E a \in 1..Len(rule) : AltMatch(q, rule[a])

\* One alternative: phrases separated by ".*".
Lit(words) == <<words>>
Gap2(a, b) == <<<<a>>, <<b>>>>
Gap3(a, b, c) == <<<<a>>, <<b>>, <<c>>>>

ResumeDetailRules ==
  << <<Lit(<<"did", "they", "mention">>), Lit(<<"do", "they", "have">>),
       Gap2("where", "show"), Gap2("what", "experience")>>,
     <<Lit(<<"background", "in">>), Lit(<<"skilled", "in">>), Lit(<<"familiar", "with">>)>> >>

EvaluationChallengeRulesNoQualified ==
  << <<Gap2("why", "score"), Gap2("why", "ranked"), Gap2("what", "wrong")>>,
     <<Gap2("reason", "failed"), Gap2("explanation", "tier")>> >>

EvaluationChallengeRules ==
  << <<Gap2("why", "qualified"), Gap2("why", "score"), Gap2("why", "ranked"),
       Gap2("what", "wrong")>>,
     <<Gap2("reason", "failed"), Gap2("explanation", "tier")>> >>

CandidateComparisonRules ==
  << <<Lit(<<"stronger", "than">>), Lit(<<"better", "than">>), Gap2("compare", "to"),
       Lit(<<"versus">>), Lit(<<"vs.">>)>>,
     <<Gap2("who", "better"), Gap2("which", "candidate")>> >>

SkillVerificationRules ==
  << <<Gap2("where", "leadership"), Gap2("demonstrate", "skills"), Gap2("show", "ability")>>,
     <<Gap2("evidence", "of"), Gap2("proof", "of")>> >>

ExperienceAnalysisRules ==
  << <<Gap2("years", "experience"), Lit(<<"how", "long">>), Gap2("duration", "work")>>,
     <<Gap2("career", "length"), Gap2("time", "in")>> >>

AmbiguityCheckRules ==
  << <<Lit(<<"justified">>), Lit(<<"reasonable">>), Gap2("fair", "assessment"),
       Lit(<<"accurate">>)>>,
     <<Gap3("should", "be", "higher"), Gap2("seems", "low")>> >>

\* The intentPatterns table, in declaration order (the order Object.entries gives).
intentPatterns ==
  << [intent |-> "resume_detail_inquiry", patterns |-> ResumeDetailRules],
     [intent |-> "evaluation_challenge", patterns |-> EvaluationChallengeRules],
     [intent |-> "candidate_comparison", patterns |-> CandidateComparisonRules],
     [intent |-> "skill_verification", patterns |-> SkillVerificationRules],
     [intent |-> "experience_analysis", patterns |-> ExperienceAnalysisRules],
     [intent |-> "ambiguity_check", patterns |-> AmbiguityCheckRules],
     [intent |-> "unknown", patterns |-> <<>>] >>

\* Confidence, in tenths.
ConfidenceMatch == 8
ConfidenceUnknown == 3

\* Some rule of table entry e matches q.
EntryMatches(q, e) ==
  \E r \in 1..Len(intentPatterns[e].patterns) : Test(intentPatterns[e].patterns[r], q)

UnknownResult == [intent |-> "unknown", confidence |-> ConfidenceUnknown]

RECURSIVE ClassifyDownFrom(_, _)
ClassifyDownFrom(q, e) ==
  IF e < 1 THEN UnknownResult
  ELSE IF EntryMatches(q, e)
    THEN [intent |-> intentPatterns[e].intent, confidence |-> ConfidenceMatch]
    ELSE ClassifyDownFrom(q, e - 1)

RECURSIVE ClassifyFrom(_, _, _)
ClassifyFrom(q, e, last) ==
  IF e > last THEN UnknownResult
  ELSE IF EntryMatches(q, e)
    THEN [intent |-> intentPatterns[e].intent, confidence |-> ConfidenceMatch]
    ELSE ClassifyFrom(q, e + 1, last)

classifyIntentLastMatch(q) == ClassifyDownFrom(q, Len(intentPatterns))

classifyIntentSkipsLast(q) == ClassifyFrom(q, 1, Len(intentPatterns) - 2)

\* classifyIntent: the first entry, in table order, with a matching rule.
classifyIntent(q) == ClassifyFrom(q, 1, Len(intentPatterns))

NoIntent == [intent |-> "none", confidence |-> 0]

Queries == SeqsUpTo(Vocabulary, MaxQueryLen)

\* The queries "why was <X> qualified".
WhyQuery(x) == <<"why", "was">> \o x \o <<"qualified">>
WhyQueries == {WhyQuery(x) : x \in SeqsUpTo(Vocabulary, MaxXLen)}

Classify ==
  /\ intentResult = NoIntent
  /\ intentResult' = classifyIntent(query)
  /\ UNCHANGED <<query, genVars, searchVars, contextVars>>

----------------------------------------------------------------------------
(* searchResume *)

MaxPieces == 6

Terminators == {".", "!", "?"}
Whitespace == {" "}

\* String.prototype.toLowerCase, character by character.
LowerChar(c) == IF c = "A" THEN "a" ELSE IF c = "B" THEN "b" ELSE c
toLowerCase(s) == [i \in 1..Len(s) |-> LowerChar(s[i])]

\* String.prototype.split on a pattern [seps]+ : the pieces between the runs of
\* separators, an empty piece before a leading run and after a trailing one.
RECURSIVE SplitFrom(_, _, _, _, _)
SplitFrom(s, seps, i, cur, out) ==
  IF i > Len(s) THEN Append(out, cur)
  ELSE IF s[i] \in seps
    THEN IF i > 1 /\ s[i - 1] \in seps
           THEN SplitFrom(s, seps, i + 1, cur, out)
           ELSE SplitFrom(s, seps, i + 1, <<>>, Append(out, cur))
    ELSE SplitFrom(s, seps, i + 1, Append(cur, s[i]), out)

split(s, seps) == SplitFrom(s, seps, 1, <<>>, <<>>)

\* String.prototype.trim.
RECURSIVE trim(_)
trim(s) ==
  IF s = <<>> THEN s
  ELSE IF Head(s) \in Whitespace THEN trim(Tail(s))
  ELSE IF s[Len(s)] \in Whitespace THEN trim(SubSeq(s, 1, Len(s) - 1))
  ELSE s

\* String.prototype.includes: t occurs in s as a substring (the empty t always does).
includes(s, t) ==
  \E i \in 0..(Len(s) - Len(t)) : SubSeq(s, i + 1, i + Len(t)) = t

IsSentence(s) == Len(trim(s)) > 0

\* resumeText.split(/[.!?]+/).filter(s => s.trim().length > 0)
sentencesOf(text) == SelectSeq(split(text, Terminators), IsSentence)

\* query.toLowerCase().split(/\s+/)
queryTermsOf(q) == split(toLowerCase(q), Whitespace)

\* The inner loop: the number of entries of queryTerms the sentence includes.
RECURSIVE CountTerms(_, _, _)
CountTerms(sentenceLower, terms, k) ==
  IF k > Len(terms) THEN 0
  ELSE (IF includes(sentenceLower, terms[k]) THEN 1 ELSE 0)
       + CountTerms(sentenceLower, terms, k + 1)

\* relevanceScore / queryTerms.length, kept as a fraction.
Score(n, d) == [num |-> n, den |-> d]

\* The outer loop, from sentence i on: one item per sentence of positive score.
RECURSIVE Collect(_, _, _)
Collect(sentences, terms, i) ==
  IF i > Len(sentences) THEN <<>>
  ELSE LET sentence == trim(sentences[i])
           relevanceScore == CountTerms(toLowerCase(sentence), terms, 1)
           rest == Collect(sentences, terms, i + 1)
       IN  IF relevanceScore > 0
             THEN <<[type |-> "resume", content |-> sentence,
                     relevanceScore |-> Score(relevanceScore, Len(terms)),
                     location |-> i]>> \o rest
             ELSE rest

\* The comparator (a, b) => b.relevanceScore - a.relevanceScore is positive:
\* b goes before a.
Before(b, a) ==
  b.relevanceScore.num * a.relevanceScore.den > a.relevanceScore.num * b.relevanceScore.den

\* An unstable sort: each item goes in front of the items of its own score.
RECURSIVE InsertSortedUnstable(_, _)
InsertSortedUnstable(sorted, e) ==
  IF sorted = <<>> THEN <<e>>
  ELSE IF ~Before(Head(sorted), e) THEN <<e>> \o sorted
  ELSE <<Head(sorted)>> \o InsertSortedUnstable(Tail(sorted), e)

\* Array.prototype.sort, which is stable: each item goes behind the items it is
\* not before.
RECURSIVE InsertSorted(_, _)
InsertSorted(sorted, e) ==
  IF sorted = <<>> THEN <<e>>
  ELSE IF Before(e, Head(sorted)) THEN <<e>> \o sorted
  ELSE <<Head(sorted)>> \o InsertSorted(Tail(sorted), e)

RECURSIVE SortFrom(_, _, _)
SortFrom(items, i, sorted) ==
  IF i > Len(items) THEN sorted
  ELSE SortFrom(items, i + 1, InsertSorted(sorted, items[i]))

sort(items) == SortFrom(items, 1, <<>>)

\* slice(0, 5)
TopK == 5
slice(items, n) == SubSeq(items, 1, IF Len(items) < n THEN Len(items) ELSE n)

searchResumeNoSort(text, q) ==
  IF text = <<>> THEN <<>>
  ELSE slice(Collect(sentencesOf(text), queryTermsOf(q), 1), TopK)

searchResume(text, q) ==
  IF text = <<>> THEN <<>>
  ELSE slice(sort(Collect(sentencesOf(text), queryTermsOf(q), 1)), TopK)

\* The resume texts: up to MaxPieces pieces, each a unit and its terminators.
ResumePieces ==
  { <<"a", ".">>, <<" ", "A", " ", "b", "!", "?">>, <<"c", ".">>, <<" ", ".">> }

RECURSIVE Concat(_)
Concat(ss) == IF ss = <<>> THEN <<>> ELSE Head(ss) \o Concat(Tail(ss))

ResumeTexts == {Concat(ps) : ps \in SeqsUpTo(ResumePieces, MaxPieces)}

QuerySamples ==
  { <<>>, <<"a">>, <<" ", "a">>, <<"a", " ", "B">>, <<"b", " ", " ", "a", " ">>,
    <<"x">>, <<"a", " ", "a", " ", "B">> }

NotSearched == [done |-> FALSE, items |-> <<>>]

Search ==
  /\ ~evidence.done
  /\ evidence' = [done |-> TRUE, items |-> searchResume(resumeText, searchQuery)]
  /\ UNCHANGED <<resumeText, searchQuery, genVars, classifyVars, contextVars>>

----------------------------------------------------------------------------
(* The context summary of generateResponse *)

MaxOver == 1

\* context.jobDescription.substring(0, 500)
TruncLen == 500

\* An optional field: absent (undefined), or present with a value.
Absent == [present |-> FALSE, val |-> <<>>]
Present(v) == [present |-> TRUE, val |-> v]

\* Truthiness of an optional string: present and not "".
Truthy(f) == f.present /\ f.val # <<>>

substring(s, n) == SubSeq(s, 1, IF Len(s) < n THEN Len(s) ELSE n)

\* The decimal digits of a number, as a template literal prints it.
Digit(d) == CASE d = 0 -> "0" [] d = 1 -> "1" [] d = 2 -> "2" [] d = 3 -> "3"
              [] d = 4 -> "4" [] d = 5 -> "5" [] d = 6 -> "6" [] d = 7 -> "7"
              [] d = 8 -> "8" [] d = 9 -> "9"
RECURSIVE NumStr(_)
NumStr(n) == IF n < 10 THEN <<Digit(n)>> ELSE Append(NumStr(n \div 10), Digit(n % 10))

\* scores?.overall || 'N/A'
OverallOrNA(ev) ==
  IF ev.overall.present /\ ev.overall.val # 0 THEN NumStr(ev.overall.val) ELSE <<"N/A">>

\* Array.prototype.filter(Boolean) over strings: the non-empty ones.
NonEmpty(s) == s # <<>>
filterBoolean(lines) == SelectSeq(lines, NonEmpty)

\* Array.prototype.join('\n')
RECURSIVE join(_)
join(lines) ==
  IF lines = <<>> THEN <<>>
  ELSE IF Len(lines) = 1 THEN lines[1]
  ELSE lines[1] \o <<NL>> \o join(Tail(lines))

JobLineEllipsisWhenCut(c) ==
  IF Truthy(c.jobDescription)
    THEN <<"Job Description: ">> \o substring(c.jobDescription.val, TruncLen)
         \o (IF Len(c.jobDescription.val) > TruncLen THEN <<"...">> ELSE <<>>)
    ELSE <<>>

JobLine(c) ==
  IF Truthy(c.jobDescription)
    THEN <<"Job Description: ">> \o substring(c.jobDescription.val, TruncLen) \o <<"...">>
    ELSE <<>>

\* The contextInfo of generateResponse.
ContextInfoOf(c) ==
  join(filterBoolean(<<
    IF Truthy(c.candidateName) THEN <<"Candidate: ">> \o c.candidateName.val ELSE <<>>,
    JobLine(c),
    IF Truthy(c.mustHaveAttributes)
      THEN <<"Must-Have Attributes: ">> \o c.mustHaveAttributes.val ELSE <<>>,
    IF c.evaluationResult.present
      THEN <<"Evaluation Score: ">> \o OverallOrNA(c.evaluationResult.val) ELSE <<>>,
    IF c.evaluationResult.present /\ Truthy(c.evaluationResult.val.tier)
      THEN <<"Tier: ">> \o c.evaluationResult.val.tier.val ELSE <<>>,
    IF c.evaluationResult.present /\ Truthy(c.evaluationResult.val.explanation)
      THEN <<"Evaluation Summary: ">> \o c.evaluationResult.val.explanation.val ELSE <<>>
  >>))

\* A job description of n characters.
JdChar(i) == IF i % 3 = 1 THEN "j" ELSE IF i % 3 = 2 THEN "o" ELSE "b"
JdOfLen(n) == [i \in 1..n |-> JdChar(i)]
JdLens == {10, TruncLen - 1, TruncLen} \cup {TruncLen + k : k \in 1..MaxOver}

OptStrings(vals) == {Absent, Present(<<>>)} \cup {Present(v) : v \in vals}

NoEvaluation == [overall |-> Absent, tier |-> Absent, explanation |-> Absent]

Evaluations ==
  [overall : {Absent, [present |-> TRUE, val |-> 0], [present |-> TRUE, val |-> 85]},
   tier : OptStrings({<<"T", "o", "p">>}),
   explanation : OptStrings({<<"o", "k">>})]

Contexts ==
  [candidateName : OptStrings({<<"A", "l">>}),
   jobDescription : OptStrings({JdOfLen(n) : n \in JdLens}),
   mustHaveAttributes : OptStrings({<<"S", "Q", "L">>}),
   evaluationResult : {[present |-> FALSE, val |-> NoEvaluation]}
                      \cup {[present |-> TRUE, val |-> ev] : ev \in Evaluations}]

NoContext ==
  [candidateName |-> Absent, jobDescription |-> Absent, mustHaveAttributes |-> Absent,
   evaluationResult |-> [present |-> FALSE, val |-> NoEvaluation]]

NotBuilt == [done |-> FALSE, text |-> <<>>]

BuildContext ==
  /\ ~contextInfo.done
  /\ contextInfo' = [done |-> TRUE, text |-> ContextInfoOf(context)]
  /\ UNCHANGED <<context, genVars, classifyVars, searchVars>>

----------------------------------------------------------------------------
(* Specifications *)

GenIdle ==
  /\ openai = "null"
  /\ built = 0
  /\ apiKey = FALSE
  /\ usingAzure = FALSE
  /\ pc = [p \in Invocations |-> "idle"]
  /\ calls = [p \in Invocations |-> 0]
  /\ ret = NoRet

ClassifyIdle == query = <<>> /\ intentResult = NoIntent
SearchIdle == resumeText = <<>> /\ searchQuery = <<>> /\ evidence = NotSearched
ContextIdle == context = NoContext /\ contextInfo = NotBuilt

\* The chat service in a process: the client is not built yet, the environment
\* is any, and invocations of generateResponse interleave at their await.
Init ==
  /\ openai = "null"
  /\ built = 0
  /\ apiKey \in BOOLEAN
  /\ usingAzure \in BOOLEAN
  /\ pc = [p \in Invocations |-> "idle"]
  /\ calls = [p \in Invocations |-> 0]
  /\ ret = NoRet
  /\ ClassifyIdle /\ SearchIdle /\ ContextIdle

Next == (\E p \in Invocations : Invoke(p) \/ Complete(p)) \/ Deliver

Spec == Init /\ [][Next]_vars

\* classifyIntent applied to any query.
InitClassify ==
  /\ GenIdle /\ SearchIdle /\ ContextIdle
  /\ query \in Queries
  /\ intentResult = NoIntent

SpecClassify == InitClassify /\ [][Classify]_vars

\* classifyIntent applied to the queries "why was <X> qualified".
InitWhy ==
  /\ GenIdle /\ SearchIdle /\ ContextIdle
  /\ query \in WhyQueries
  /\ intentResult = NoIntent

SpecWhy == InitWhy /\ [][Classify]_vars

\* searchResume applied to any resume text and query.
InitSearch ==
  /\ GenIdle /\ ClassifyIdle /\ ContextIdle
  /\ resumeText \in ResumeTexts
  /\ searchQuery \in QuerySamples
  /\ evidence = NotSearched

SpecSearch == InitSearch /\ [][Search]_vars

\* The context summary built from any context.
InitContext ==
  /\ GenIdle /\ ClassifyIdle /\ SearchIdle
  /\ context \in Contexts
  /\ contextInfo = NotBuilt

SpecContext == InitContext /\ [][BuildContext]_vars

----------------------------------------------------------------------------
(* Claims about generateResponse, under Spec *)

Finished == ret.how # "none"

\* C1: every finished invocation of generateResponse ended by returning a
\* non-empty string, whatever the client construction and the call did; none
\* ended by throwing.
C1_AlwaysReturnsNonEmptyString ==
  Finished => ret.how = "returned" /\ ret.value # ""

\* An invocation whose call succeeded with empty content returned the apology.
C1_Witness ==
  Finished /\ ret.stage = "call" /\ ret.kind = "emptyContent" /\ ret.value = ApologyMsg

\* The categories of the error mapping, in priority order.
ErrorCategories ==
  << [needles |-> {"401", "Incorrect API key"}, msg |-> AuthMsg],
     [needles |-> {"429"}, msg |-> RateLimitMsg],
     [needles |-> {"insufficient_quota", "exceeded your current quota"}, msg |-> QuotaMsg],
     [needles |-> {"model"}, msg |-> ModelMsg] >>

CategoriesIn(m) ==
  {i \in 1..Len(ErrorCategories) : \E n \in ErrorCategories[i].needles : Includes(m, n)}

FirstCategoryMsg(m) ==
  IF CategoriesIn(m) = {} THEN GenericMsg
  ELSE ErrorCategories[CHOOSE i \in CategoriesIn(m) : \A j \in CategoriesIn(m) : i <= j].msg

\* C2: when the invocation failed with an Error whose text is m, the string
\* returned is the message of the first category, in priority order, with a
\* substring in m, and the generic apology when there is none.
C2_FirstCategoryInPriorityOrder ==
  Finished /\ ret.kind = "rejected" /\ ret.error.isError
    => ret.value = FirstCategoryMsg(ret.error.message)

\* A failed call whose message holds "429" and "model" got the rate-limit message.
C2_Witness ==
  /\ Finished /\ ret.stage = "call" /\ ret.kind = "rejected" /\ ret.error.isError
  /\ Includes(ret.error.message, "429") /\ Includes(ret.error.message, "model")
  /\ ret.value = RateLimitMsg

\* C3 as claimed: every finished invocation issued exactly one call.
C3_ExactlyOneCall == Finished => ret.calls = 1

\* C3, amended: an invocation issues at most one call and never a second one:
\* exactly one when getOpenAIClient gave a client, none when it threw; a failed
\* call is not retried.
C3_AtMostOneCallNoRetry ==
  /\ \A p \in Invocations :
       /\ calls[p] <= 1
       /\ pc[p] = "awaiting" => calls[p] = 1
  /\ Finished => /\ ret.stage = "call" => ret.calls = 1
                 /\ ret.stage = "client" => ret.calls = 0

\* An invocation whose one call failed has returned.
C3_Witness ==
  Finished /\ ret.stage = "call" /\ ret.kind = "rejected" /\ ret.calls = 1

\* Some invocation has just run getOpenAIClient and gone on to its call.
Started == \E p \in Invocations : pc[p] = "idle" /\ pc'[p] = "awaiting"

\* C13: in standard (non-Azure) mode, over any interleaving of invocations, the
\* cached client is built lazily and at most once: it is null as long as nothing
\* was built, the first invocation that finds an API key sets it, no step
\* replaces or resets it once set, and without an API key it stays null.
C13_ClientBuiltLazilyAtMostOnce ==
  /\ [](~usingAzure => /\ built <= 1
                       /\ (openai = "null") <=> (built = 0)
                       /\ ~apiKey => openai = "null")
  /\ [][~usingAzure => /\ openai # "null" => openai' = openai /\ built' = built
                       /\ openai = "null" /\ openai' # "null" => apiKey /\ built' = 1
                       /\ Started /\ apiKey => openai' = "client"]_vars

\* Every invocation is at its await, each after its own getOpenAIClient, and
\* the client was built once.
C13_Witness ==
  /\ ~usingAzure
  /\ \A p \in Invocations : pc[p] = "awaiting"
  /\ openai = "client"
  /\ built = 1

----------------------------------------------------------------------------
(* Claims about classifyIntent, under SpecClassify and SpecWhy *)

Classified == intentResult # NoIntent

\* The table entries with a rule that matches q.
MatchingEntries(q) == {e \in 1..Len(intentPatterns) : EntryMatches(q, e)}

Intents == {intentPatterns[e].intent : e \in 1..Len(intentPatterns)}

\* C4: for a query matching rules of two or more intents, the intent returned
\* is the earliest declared intent with a matching rule.
C4_FirstMatchWins ==
  Classified /\ Cardinality(MatchingEntries(query)) >= 2
    => \E e \in MatchingEntries(query) :
         /\ \A f \in MatchingEntries(query) : e <= f
         /\ intentResult.intent = intentPatterns[e].intent

\* A query matching evaluation_challenge and ambiguity_check got the earlier one.
C4_Witness ==
  /\ Classified
  /\ MatchingEntries(query) = {2, 6}
  /\ intentResult.intent = "evaluation_challenge"

\* C5: one intent per query: unknown with confidence 0.3 exactly when no rule
\* of any intent matches, otherwise a non-unknown intent with confidence 0.8.
C5_UnknownIffNoRuleMatches ==
  Classified =>
    /\ intentResult.intent \in Intents
    /\ (intentResult.intent = "unknown") <=> (MatchingEntries(query) = {})
    /\ intentResult.intent = "unknown" => intentResult.confidence = 3
    /\ intentResult.intent # "unknown" => intentResult.confidence = 8

\* "why", a line break, "qualified": no rule matches, the result is unknown.
C5_Witness ==
  /\ Classified
  /\ query = <<"why", NL, "qualified">>
  /\ intentResult = [intent |-> "unknown", confidence |-> 3]

\* C6 as claimed: every query "why was <X> qualified" gets evaluation_challenge
\* with confidence 0.8.
C6_WhyQualifiedAlwaysChallenge ==
  Classified =>
    intentResult = [intent |-> "evaluation_challenge", confidence |-> 8]

\* C6, amended: a query "why was <X> qualified" whose X holds no line terminator
\* and which matches no rule of resume_detail_inquiry gets evaluation_challenge
\* with confidence 0.8.
C6_WhyQualifiedOnOneLine ==
  Classified /\ (\A i \in 1..Len(query) : query[i] # NL) /\ ~EntryMatches(query, 1)
    => intentResult = [intent |-> "evaluation_challenge", confidence |-> 8]

\* "why was <X> qualified" with an X that also matches a later intent.
C6_Witness ==
  /\ Classified
  /\ Len(query) = 5
  /\ \A i \in 1..Len(query) : query[i] # NL
  /\ MatchingEntries(query) = {2, 6}
  /\ intentResult = [intent |-> "evaluation_challenge", confidence |-> 8]

----------------------------------------------------------------------------
(* Claims about searchResume, under SpecSearch *)

\* a's score is at least b's.
ScoreGeq(a, b) ==
  a.relevanceScore.num * b.relevanceScore.den >= b.relevanceScore.num * a.relevanceScore.den

\* C7: searchResume returns at most 5 items, with relevanceScore non-increasing
\* from first to last.
C7_AtMostFiveNonIncreasing ==
  evidence.done =>
    /\ Len(evidence.items) <= 5
    /\ \A i \in 1..(Len(evidence.items) - 1) :
         ScoreGeq(evidence.items[i], evidence.items[i + 1])

\* More than 5 sentences scored, 5 were returned, and a later sentence of higher
\* score came out before an earlier one.
C7_Witness ==
  /\ evidence.done
  /\ Len(Collect(sentencesOf(resumeText), queryTermsOf(searchQuery), 1)) > 5
  /\ Len(evidence.items) = 5
  /\ evidence.items[1].location > evidence.items[5].location
  /\ ~ScoreGeq(evidence.items[5], evidence.items[1])

\* C8: an empty resumeText, and an empty query, each give the empty sequence.
C8_EmptyInEmptyOut ==
  evidence.done /\ (resumeText = <<>> \/ searchQuery = <<>>)
    => evidence.items = <<>>

\* The words of a query: what its whitespace separates.
QueryWords(q) ==
  {w \in {queryTermsOf(q)[k] : k \in 1..Len(queryTermsOf(q))} : w # <<>>}

\* C9: every sentence returned contains one of the query's words at least, as
\* a case-insensitive substring.
C9_NoOverlapExcluded ==
  evidence.done =>
    \A i \in 1..Len(evidence.items) :
      \E w \in QueryWords(searchQuery) :
        includes(toLowerCase(evidence.items[i].content), w)

\* The terms of a query, in order and with repetitions: its words.
IsWord(w) == w # <<>>
QueryWordList(q) == SelectSeq(queryTermsOf(q), IsWord)

\* How many of the terms occur in the sentence, each counted once.
RECURSIVE Occurring(_, _)
Occurring(sentence, terms) ==
  IF terms = <<>> THEN 0
  ELSE (IF includes(toLowerCase(sentence), Head(terms)) THEN 1 ELSE 0)
       + Occurring(sentence, Tail(terms))

\* C11: the relevanceScore of every item returned is the number of the query's
\* terms that occur in its sentence, as case-insensitive substrings and each
\* counted once, divided by the number of the query's terms; it lies in (0, 1].
C11_ScoreIsFractionOfTerms ==
  evidence.done =>
    \A i \in 1..Len(evidence.items) :
      LET item == evidence.items[i]
          terms == QueryWordList(searchQuery)
      IN  /\ Len(terms) > 0
          /\ item.relevanceScore.num * Len(terms)
               = Occurring(item.content, terms) * item.relevanceScore.den
          /\ item.relevanceScore.num > 0
          /\ item.relevanceScore.num <= item.relevanceScore.den

\* The same with the terms as the code splits them, the empty ones included:
\* what searchResume computes.
ScoreIsFractionOfSplitTerms ==
  evidence.done =>
    \A i \in 1..Len(evidence.items) :
      LET item == evidence.items[i]
          terms == queryTermsOf(searchQuery)
      IN  /\ item.relevanceScore.den = Len(terms)
          /\ item.relevanceScore.num = Occurring(item.content, terms)
          /\ item.relevanceScore.num > 0
          /\ item.relevanceScore.num <= item.relevanceScore.den

\* The items searchResume collects before it sorts and cuts them.
Candidates == Collect(sentencesOf(resumeText), queryTermsOf(searchQuery), 1)

SameScore(a, b) == ScoreGeq(a, b) /\ ScoreGeq(b, a)

Kept(c) == \E i \in 1..Len(evidence.items) : evidence.items[i].location = c.location

\* C12: returned items of equal relevanceScore are in ascending order of their
\* sentence position, and a scoring sentence that was cut off has no higher
\* score than any kept item and comes later than the kept items of its score.
C12_TiesInSentenceOrder ==
  evidence.done =>
    LET items == evidence.items
        cut == IF Len(items) < 5 THEN <<>>
               ELSE SelectSeq(Candidates, LAMBDA c : ~Kept(c))
    IN  /\ \A i, j \in 1..Len(items) :
             i < j /\ SameScore(items[i], items[j])
               => items[i].location < items[j].location
        /\ Len(items) < 5 => Len(items) = Len(Candidates)
        /\ \A k \in 1..Len(cut) :
             \A i \in 1..Len(items) :
               /\ ScoreGeq(items[i], cut[k])
               /\ SameScore(items[i], cut[k]) => items[i].location < cut[k].location

\* Sentences of two scores, more than 5 in all; the cut falls among sentences of
\* equal score, and a kept item of the higher score stood behind a kept item of
\* the lower one.
C12_Witness ==
  /\ evidence.done
  /\ Len(evidence.items) = 5
  /\ \E k \in 1..Len(Candidates) :
       ~Kept(Candidates[k]) /\ SameScore(evidence.items[5], Candidates[k])
  /\ SameScore(evidence.items[4], evidence.items[5])
  /\ ~ScoreGeq(evidence.items[5], evidence.items[1])
  /\ evidence.items[1].location > evidence.items[4].location

----------------------------------------------------------------------------
(* Claims about the context summary, under SpecContext *)

\* The lines the summary is claimed to hold: one per field that is present and
\* not empty.
ClaimedLines(c) ==
  (IF Truthy(c.candidateName) THEN << <<"Candidate: ">> \o c.candidateName.val >> ELSE <<>>)
  \o (IF Truthy(c.jobDescription)
        THEN << <<"Job Description: ">> \o substring(c.jobDescription.val, 500) \o <<"...">> >>
        ELSE <<>>)
  \o (IF Truthy(c.mustHaveAttributes)
        THEN << <<"Must-Have Attributes: ">> \o c.mustHaveAttributes.val >> ELSE <<>>)
  \o (IF c.evaluationResult.present /\ c.evaluationResult.val.overall.present
        THEN << <<"Evaluation Score: ">> \o NumStr(c.evaluationResult.val.overall.val) >>
        ELSE <<>>)
  \o (IF c.evaluationResult.present /\ Truthy(c.evaluationResult.val.tier)
        THEN << <<"Tier: ">> \o c.evaluationResult.val.tier.val >> ELSE <<>>)
  \o (IF c.evaluationResult.present /\ Truthy(c.evaluationResult.val.explanation)
        THEN << <<"Evaluation Summary: ">> \o c.evaluationResult.val.explanation.val >>
        ELSE <<>>)

\* The same, but the score line is there whenever an evaluation result is, and
\* reads N/A when the overall score is absent or 0.
AmendedLines(c) ==
  (IF Truthy(c.candidateName) THEN << <<"Candidate: ">> \o c.candidateName.val >> ELSE <<>>)
  \o (IF Truthy(c.jobDescription)
        THEN << <<"Job Description: ">> \o substring(c.jobDescription.val, 500) \o <<"...">> >>
        ELSE <<>>)
  \o (IF Truthy(c.mustHaveAttributes)
        THEN << <<"Must-Have Attributes: ">> \o c.mustHaveAttributes.val >> ELSE <<>>)
  \o (IF c.evaluationResult.present
        THEN << <<"Evaluation Score: ">>
                \o (IF c.evaluationResult.val.overall.present
                       /\ c.evaluationResult.val.overall.val # 0
                      THEN NumStr(c.evaluationResult.val.overall.val) ELSE <<"N/A">>) >>
        ELSE <<>>)
  \o (IF c.evaluationResult.present /\ Truthy(c.evaluationResult.val.tier)
        THEN << <<"Tier: ">> \o c.evaluationResult.val.tier.val >> ELSE <<>>)
  \o (IF c.evaluationResult.present /\ Truthy(c.evaluationResult.val.explanation)
        THEN << <<"Evaluation Summary: ">> \o c.evaluationResult.val.explanation.val >>
        ELSE <<>>)

\* The lines of a text: what its line breaks separate.
LinesOf(text) ==
  IF text = <<>> THEN <<>>
  ELSE LET breaks == {0, Len(text) + 1} \cup {i \in 1..Len(text) : text[i] = NL}
           Nth(k) == CHOOSE b \in breaks : Cardinality({c \in breaks : c < b}) = k - 1
       IN  [k \in 1..(Cardinality(breaks) - 1) |->
              SubSeq(text, Nth(k) + 1, Nth(k + 1) - 1)]

\* C10 as claimed: the summary is the newline-join of one line per field that
\* is present and not empty, in the fixed order; an absent or empty field
\* gives no line; the job description line holds its first 500 characters and "...".
C10_OneLinePerPresentField ==
  contextInfo.done => contextInfo.text = join(ClaimedLines(context))

\* C10, amended: as claimed, except that the evaluation score line is there
\* whenever an evaluation result is present, and reads N/A when the overall
\* score is absent or 0. No line of the summary is blank.
C10_OneLinePerPresentFieldScoreNA ==
  contextInfo.done =>
    /\ contextInfo.text = join(AmendedLines(context))
    /\ LinesOf(contextInfo.text) = AmendedLines(context)
    /\ \A i \in 1..Len(LinesOf(contextInfo.text)) : LinesOf(contextInfo.text)[i] # <<>>

\* A job description of 10 characters, an empty candidate name, an evaluation
\* result with no overall score: three lines, the first cut nowhere and ending "...".
C10_Witness ==
  /\ contextInfo.done
  /\ context.candidateName = Present(<<>>)
  /\ Len(context.jobDescription.val) = 10
  /\ ~Truthy(context.mustHaveAttributes)
  /\ context.evaluationResult.present
  /\ ~context.evaluationResult.val.overall.present
  /\ Truthy(context.evaluationResult.val.tier)
  /\ ~Truthy(context.evaluationResult.val.explanation)
  /\ Len(LinesOf(contextInfo.text)) = 3
  /\ LinesOf(contextInfo.text)[1] = <<"Job Description: ">> \o JdOfLen(10) \o <<"...">>

====
